---- MODULE Spec2Model ----
(***************************************************************************)
(* Model of the sandboxed code-execution subsystem                         *)
(* (backend/modules/llm/code_interpreter.py): the source rewriter, the     *)
(* static policy validator, the isolated executor and its result channel.  *)
(* Code is text (a TLA+ string); the rewriter and the textual scan work on *)
(* the characters, the syntax-tree walk on the tree a parser of a Python   *)
(* subset builds from the rewritten text.                                  *)
(***************************************************************************)
EXTENDS Integers, Sequences, FiniteSets, TLC

(***************************************************************************)
(* Text primitives (Python str / re semantics).                            *)
(***************************************************************************)

\* s[i:] of Python, 1-based: the suffix of s that starts at position i.
From(s, i) == SubSeq(s, i, Len(s))

\* s.startswith(p, i-1): p occurs in s at position i.
StartsWithAt(s, i, p) ==
    /\ i >= 1
    /\ i + Len(p) - 1 <= Len(s)
    /\ SubSeq(s, i, i + Len(p) - 1) = p

\* s.endswith(p)
EndsWith(s, p) == Len(p) <= Len(s) /\ SubSeq(s, Len(s) - Len(p) + 1, Len(s)) = p

\* p in s
Contains(s, p) == \E i \in 1..(Len(s) - Len(p) + 1) : StartsWithAt(s, i, p)

\* The one-character string at position i ("" past the end).
Ch(s, i) == IF i >= 1 /\ i <= Len(s) THEN SubSeq(s, i, i) ELSE ""

\* The characters the regex class \s matches.
Whitespace == {" ", "\t", "\n", "\r", "\f"}

\* The first position at or after i that holds no whitespace (Len(s)+1 if none).
SkipWs(s, i) ==
    CHOOSE j \in i..(Len(s) + 1) :
        /\ \A k \in i..(j - 1) : Ch(s, k) \in Whitespace
        /\ (j = Len(s) + 1 \/ Ch(s, j) \notin Whitespace)

\* The first position of s where p occurs (0: nowhere).
IndexOf(s, p) ==
    IF Contains(s, p)
    THEN CHOOSE i \in 1..(Len(s) - Len(p) + 1) :
             /\ StartsWithAt(s, i, p)
             /\ \A k \in 1..(i - 1) : ~StartsWithAt(s, k, p)
    ELSE 0

\* str.replace(old, new): leftmost, non-overlapping, left to right.
RECURSIVE Replace(_, _, _)
Replace(s, old, new) ==
    LET i == IndexOf(s, old)
    IN  IF i = 0 THEN s
        ELSE SubSeq(s, 1, i - 1) \o new \o Replace(From(s, i + Len(old)), old, new)

\* str.split(sep) for a one-character separator.
RECURSIVE Split(_, _)
Split(s, sep) ==
    IF \E i \in 1..Len(s) : Ch(s, i) = sep
    THEN LET i == CHOOSE k \in 1..Len(s) :
                      Ch(s, k) = sep /\ \A m \in 1..(k - 1) : Ch(s, m) # sep
         IN  <<SubSeq(s, 1, i - 1)>> \o Split(From(s, i + 1), sep)
    ELSE <<s>>

\* sep.join(parts)
RECURSIVE Join(_, _)
Join(parts, sep) ==
    IF Len(parts) = 0 THEN ""
    ELSE IF Len(parts) = 1 THEN parts[1]
    ELSE parts[1] \o sep \o Join(Tail(parts), sep)

(***************************************************************************)
(* Security configuration.                                                 *)
(***************************************************************************)

BLOCKED_MODULES ==
    { "os", "sys", "subprocess", "shutil", "pathlib",
      "socket", "http", "requests", "urllib", "urllib3",
      "ctypes", "importlib", "pickle", "shelve",
      "tempfile", "glob", "signal", "threading", "multiprocessing",
      "webbrowser", "ftplib", "smtplib", "telnetlib",
      "xml", "html", "json",
      "sqlite3", "dbm", "zipfile", "tarfile", "gzip", "bz2", "lzma",
      "code", "codeop", "compile", "compileall",
      "inspect", "dis", "gc", "atexit" }

BLOCKED_BUILTINS ==
    { "exec", "eval", "compile", "__import__",
      "open", "input", "breakpoint",
      "globals", "locals", "vars", "dir",
      "getattr", "setattr", "delattr", "hasattr",
      "memoryview", "bytearray", "bytes" }

\* The keys of the module-level dict SAFE_BUILTINS as the module defines it.
SAFE_BUILTINS ==
    { "print", "len", "range", "str",
      "int", "float", "list", "dict",
      "tuple", "set", "frozenset",
      "sorted", "reversed",
      "enumerate", "zip", "map", "filter",
      "sum", "min", "max", "abs", "round",
      "isinstance", "issubclass", "type",
      "bool", "any", "all",
      "True", "False", "None",
      "ValueError", "TypeError",
      "KeyError", "IndexError",
      "Exception" }

POLARS_CORRECTIONS ==
    << <<".groupby(", ".group_by(">>,
       <<".first()", ".head(1)">>,
       <<".isnull()", ".is_null()">>,
       <<".notnull()", ".is_not_null()">>,
       <<".fillna(", ".fill_null(">>,
       <<".dropna(", ".drop_nulls(">>,
       <<".isna()", ".is_null()">>,
       <<".notna()", ".is_not_null()">>,
       <<".astype(", ".cast(">>,
       <<".sort_values(", ".sort(">>,
       <<".iterrows()", ".to_dicts()">>,
       <<".apply(", ".map_elements(">>,
       <<".reset_index()", "">>,
       <<".reset_index(drop=True)", "">>,
       <<".nunique()", ".n_unique()">>,
       <<".to_numpy()", ".to_list()">>,
       <<"import pandas as pd", "# pandas not available, use polars">>,
       <<"pd.DataFrame", "pl.DataFrame">>,
       <<"pd.read_csv", "# pl.read_csv not allowed, use pre-loaded data">>,
       <<".lazy().collect()", "">>,
       <<".collect()", "">>,
       <<".lazy()", "">> >>

\* Each pattern is ^\s*<lit><tail>$ where the tail is \s* ("ws") or .* ("any").
STRIPPED_IMPORT_PATTERNS ==
    << [lit |-> "import polars as pl",      tail |-> "ws"],
       [lit |-> "import polars",            tail |-> "ws"],
       [lit |-> "from polars import ",      tail |-> "any"],
       [lit |-> "import datetime",          tail |-> "any"],
       [lit |-> "from datetime import ",    tail |-> "any"],
       [lit |-> "import math",              tail |-> "ws"],
       [lit |-> "from math import ",        tail |-> "any"],
       [lit |-> "import re",                tail |-> "ws"],
       [lit |-> "from collections import ", tail |-> "any"] >>

EXEC_TIMEOUT_SECONDS == 10

(***************************************************************************)
(* Source rewriter: CodeInterpreter._preprocess_code.                      *)
(***************************************************************************)

\* for old, new in POLARS_CORRECTIONS: code = code.replace(old, new)
\* (the empty text has nothing left to replace).
RECURSIVE ApplyCorrections(_, _)
ApplyCorrections(code, k) ==
    IF k > Len(POLARS_CORRECTIONS) THEN code
    ELSE LET corrected == Replace(code, POLARS_CORRECTIONS[k][1],
                                  POLARS_CORRECTIONS[k][2])
         IN  IF Len(corrected) = 0 THEN corrected
             ELSE ApplyCorrections(corrected, k + 1)

\* A match of \.rename\(columns\s*=\s*(\{[^}]+\})\) at the start of s:
\* [len |-> length of the match (0: no match), group |-> the text of group 1].
RenameMatch(s) ==
    LET lit == ".rename(columns"
        a   == SkipWs(s, Len(lit) + 1)
        b   == SkipWs(s, a + 1)
        \* [^}]+ is greedy and cannot cross a "}": it ends at the first one.
        c   == CHOOSE j \in (b + 1)..(Len(s) + 1) :
                   /\ \A k \in (b + 1)..(j - 1) : Ch(s, k) # "}"
                   /\ (j = Len(s) + 1 \/ Ch(s, j) = "}")
    IN  IF /\ StartsWithAt(s, 1, lit)
           /\ Ch(s, a) = "="
           /\ Ch(s, b) = "{"
           /\ c > b + 1
           /\ Ch(s, c) = "}"
           /\ Ch(s, c + 1) = ")"
        THEN [len |-> c + 1, group |-> SubSeq(s, b, c)]
        ELSE [len |-> 0, group |-> ""]

\* re.sub(r'\.rename\(columns\s*=\s*(\{[^}]+\})\)', r'.rename(\1)', code):
\* a match can only start where the literal prefix of the pattern occurs.
RECURSIVE RenameSub(_)
RenameSub(s) ==
    LET i == IndexOf(s, ".rename(columns")
        m == RenameMatch(From(s, i))
    IN  IF i = 0 THEN s
        ELSE IF m.len > 0
        THEN SubSeq(s, 1, i - 1) \o ".rename(" \o m.group \o ")"
                 \o RenameSub(From(s, i + m.len))
        ELSE SubSeq(s, 1, i) \o RenameSub(From(s, i + 1))

\* re.match(pattern, line) for one pattern of STRIPPED_IMPORT_PATTERNS.
PatternMatches(p, line) ==
    LET a == SkipWs(line, 1)
    IN  /\ StartsWithAt(line, a, p.lit)
        /\ \/ p.tail = "any"
           \/ SkipWs(line, a + Len(p.lit)) = Len(line) + 1

\* The inner loop of _preprocess_code: some pattern matches the line.
IsStrippedImport(line) ==
    \E k \in 1..Len(STRIPPED_IMPORT_PATTERNS) :
        PatternMatches(STRIPPED_IMPORT_PATTERNS[k], line)

\* The lines the loop keeps (cleaned).
StripImports(lines) == SelectSeq(lines, LAMBDA line : ~IsStrippedImport(line))

_preprocess_code(code) ==
    Join(StripImports(Split(RenameSub(ApplyCorrections(code, 1)), "\n")), "\n")

(***************************************************************************)
(* ast.parse for the Python subset the model's programs are written in:    *)
(* import / from-import / raise / pass / assignment / expression           *)
(* statements, one-line while and try/except statements, and expressions   *)
(* made of names, constants, attribute accesses and calls.                 *)
(***************************************************************************)

Letters ==
    { "a", "b", "c", "d", "e", "f", "g", "h", "i", "j", "k", "l", "m",
      "n", "o", "p", "q", "r", "s", "t", "u", "v", "w", "x", "y", "z",
      "A", "B", "C", "D", "E", "F", "G", "H", "I", "J", "K", "L", "M",
      "N", "O", "P", "Q", "R", "S", "T", "U", "V", "W", "X", "Y", "Z", "_" }
Digits == { "0", "1", "2", "3", "4", "5", "6", "7", "8", "9" }
Operators == { ".", "(", ")", ",", "=", ";", ":", "*" }
Blanks == { " ", "\t" }
Keywords ==
    { "import", "from", "as", "raise", "pass", "while", "try", "except",
      "if", "else", "elif", "for", "in", "def", "class", "return", "lambda",
      "not", "and", "or", "is", "with", "del", "global", "yield", "assert",
      "break", "continue", "finally", "nonlocal", "async", "await" }
ConstantNames == { "True", "False", "None" }

Tok(t, v) == [t |-> t, v |-> v]

\* The first position at or after i of s that holds a character outside cs.
SkipSet(s, i, cs) ==
    CHOOSE j \in i..(Len(s) + 1) :
        /\ \A k \in i..(j - 1) : Ch(s, k) \in cs
        /\ (j = Len(s) + 1 \/ Ch(s, j) \notin cs)

\* The first position at or after i of s that holds the character c.
Find(s, i, c) ==
    CHOOSE j \in i..(Len(s) + 1) :
        /\ \A k \in i..(j - 1) : Ch(s, k) # c
        /\ (j = Len(s) + 1 \/ Ch(s, j) = c)

\* The tokens of s from position i on; depth counts the open parentheses,
\* bol says that i is the beginning of a line.
RECURSIVE Lex(_, _, _, _)
Lex(s, i, depth, bol) ==
    LET c    == Ch(s, i)
        j    == SkipSet(s, i, Blanks)
        q    == Find(s, i + 1, "'")
        e    == SkipSet(s, i, Letters \cup Digits)
        w    == SubSeq(s, i, e - 1)
        open == IF c = "(" THEN depth + 1
                ELSE IF c = ")" /\ depth > 0 THEN depth - 1 ELSE depth
    IN  CASE i > Len(s) /\ depth > 0 -> <<Tok("ERROR", "")>>
          [] i > Len(s) /\ depth = 0 -> <<Tok("NEWLINE", "")>>
          [] c \in Blanks /\ bol /\ depth = 0 /\ Ch(s, j) \in {"", "\n", "#"} ->
                 Lex(s, j, depth, FALSE)
          [] c \in Blanks /\ bol /\ depth = 0 /\ Ch(s, j) \notin {"", "\n", "#"} ->
                 <<Tok("INDENT", SubSeq(s, i, j - 1))>> \o Lex(s, j, depth, FALSE)
          [] c \in Blanks /\ ~(bol /\ depth = 0) -> Lex(s, j, depth, FALSE)
          [] c = "\n" /\ depth > 0 -> Lex(s, i + 1, depth, FALSE)
          [] c = "\n" /\ depth = 0 ->
                 <<Tok("NEWLINE", "")>> \o Lex(s, i + 1, depth, TRUE)
          [] c = "#" -> Lex(s, Find(s, i, "\n"), depth, FALSE)
          [] c = "'" /\ (q > Len(s) \/ Find(s, i + 1, "\n") < q) ->
                 <<Tok("ERROR", "")>>
          [] c = "'" /\ ~(q > Len(s) \/ Find(s, i + 1, "\n") < q) ->
                 <<Tok("STRING", SubSeq(s, i + 1, q - 1))>>
                     \o Lex(s, q + 1, depth, FALSE)
          [] c \in Letters -> <<Tok("NAME", w)>> \o Lex(s, e, depth, FALSE)
          [] c \in Digits /\ e = SkipSet(s, i, Digits) ->
                 <<Tok("NUMBER", w)>> \o Lex(s, e, depth, FALSE)
          [] c \in Digits /\ e # SkipSet(s, i, Digits) -> <<Tok("ERROR", "")>>
          [] c \in Operators /\ open >= 0 ->
                 <<Tok("OP", c)>> \o Lex(s, i + 1, open, FALSE)
          [] OTHER -> <<Tok("ERROR", "")>>

Tokenize(s) == Lex(s, 1, 0, TRUE)

\* A syntax-tree node: its class, its name (alias.name, ImportFrom.module,
\* Attribute.attr, Name.id) and its child nodes in field order.
Node(type, name, kids) == [type |-> type, name |-> name, kids |-> kids]

\* The result of a parsing function: the node and the next position.
Parsed(node, pos) == [ok |-> TRUE, node |-> node, pos |-> pos]
Failed == [ok |-> FALSE, node |-> Node("", "", <<>>), pos |-> 0]

TokAt(toks, i) == IF i <= Len(toks) THEN toks[i] ELSE Tok("END", "")
IsOp(toks, i, v) == TokAt(toks, i) = Tok("OP", v)
IsKw(toks, i, v) == TokAt(toks, i) = Tok("NAME", v)
IsIdent(toks, i) ==
    /\ TokAt(toks, i).t = "NAME"
    /\ TokAt(toks, i).v \notin Keywords \cup ConstantNames

\* The result of a rule that yields a sequence of nodes.
ParsedAll(nodes, pos) == [ok |-> TRUE, nodes |-> nodes, pos |-> pos]
FailedAll == [ok |-> FALSE, nodes |-> <<>>, pos |-> 0]

\* The recursive-descent parser: Parse(rule, toks, i, left, ind) applies a
\* grammar rule at token i; left is the expression a trailer applies to, ind
\* the indentation (in blanks) of the line the statement begins on.
RECURSIVE Parse(_, _, _, _, _)

NoNode == Node("", "", <<>>)
ParseDotted(toks, i)         == Parse("dotted_name", toks, i, NoNode, 0)
ParseAliases(toks, i)        == Parse("dotted_as_names", toks, i, NoNode, 0)
ParseFromNames(toks, i)      == Parse("import_as_names", toks, i, NoNode, 0)
ParseAtom(toks, i)           == Parse("atom", toks, i, NoNode, 0)
ParseArgs(toks, i)           == Parse("arguments", toks, i, NoNode, 0)
ParseTrailers(toks, i, left) == Parse("trailers", toks, i, left, 0)
ParseExpr(toks, i)           == Parse("expr", toks, i, NoNode, 0)
ParseAssign(toks, i)         == Parse("assignment", toks, i, NoNode, 0)
ParseSimple(toks, i)         == Parse("simple_stmt", toks, i, NoNode, 0)
ParseSimpleStmts(toks, i)    == Parse("simple_stmts", toks, i, NoNode, 0)
ParseBlock(toks, i, ind)     == Parse("block", toks, i, NoNode, ind)
ParseHandlers(toks, i, ind)  == Parse("handlers", toks, i, NoNode, ind)
ParseStatement(toks, i, ind) == Parse("statement", toks, i, NoNode, ind)
ParseStatements(toks, i, ind) == Parse("statements", toks, i, NoNode, ind)

\* The indentation of the line that begins at token i, and the first token
\* of its statement.
LineIndent(toks, i) ==
    IF TokAt(toks, i).t = "INDENT" THEN Len(TokAt(toks, i).v) ELSE 0
LineStart(toks, i) == IF TokAt(toks, i).t = "INDENT" THEN i + 1 ELSE i

\* The first position at or after i that holds no NEWLINE token.
SkipNewlines(toks, i) ==
    CHOOSE j \in i..(Len(toks) + 1) :
        /\ \A k \in i..(j - 1) : toks[k].t = "NEWLINE"
        /\ (j = Len(toks) + 1 \/ toks[j].t # "NEWLINE")

AtStmtEnd(toks, i) == IsOp(toks, i, ";") \/ TokAt(toks, i).t = "NEWLINE"

\* The token after a run of STRING tokens that starts at i.
AfterStrings(toks, i) ==
    CHOOSE j \in (i + 1)..(Len(toks) + 1) :
        /\ \A k \in i..(j - 1) : TokAt(toks, k).t = "STRING"
        /\ TokAt(toks, j).t # "STRING"

\* The position after NAME ['as' NAME] at i (0: there is none).
AfterAsName(toks, i) ==
    IF ~IsIdent(toks, i) THEN 0
    ELSE IF ~IsKw(toks, i + 1, "as") THEN i + 1
    ELSE IF IsIdent(toks, i + 2) THEN i + 3 ELSE 0

Parse(rule, toks, i, left, ind) ==
    CASE
    \* dotted_name: NAME ('.' NAME)* ; the node's name is the dotted text.
       rule = "dotted_name" ->
        IF ~IsIdent(toks, i) THEN Failed
        ELSE IF IsOp(toks, i + 1, ".")
        THEN LET r == ParseDotted(toks, i + 2)
             IN  IF r.ok
                 THEN Parsed(Node("alias", toks[i].v \o "." \o r.node.name, <<>>), r.pos)
                 ELSE Failed
        ELSE Parsed(Node("alias", toks[i].v, <<>>), i + 1)
    \* dotted_as_names: dotted_name ['as' NAME] (',' dotted_name ['as' NAME])*
    [] rule = "dotted_as_names" ->
        LET d == ParseDotted(toks, i)
            j == IF d.ok /\ IsKw(toks, d.pos, "as")
                 THEN IF IsIdent(toks, d.pos + 1) THEN d.pos + 2 ELSE 0
                 ELSE d.pos
            r == ParseAliases(toks, j + 1)
        IN  IF ~d.ok \/ j = 0 THEN FailedAll
            ELSE IF ~IsOp(toks, j, ",") THEN ParsedAll(<<d.node>>, j)
            ELSE IF r.ok THEN ParsedAll(<<d.node>> \o r.nodes, r.pos)
            ELSE FailedAll
    \* import_as_names of a from-import: NAME ['as' NAME] (',' ...)* or '*'
    [] rule = "import_as_names" ->
        LET j == AfterAsName(toks, i)
            r == ParseFromNames(toks, j + 1)
        IN  IF IsOp(toks, i, "*") THEN ParsedAll(<<Node("alias", "*", <<>>)>>, i + 1)
            ELSE IF j = 0 THEN FailedAll
            ELSE IF ~IsOp(toks, j, ",")
            THEN ParsedAll(<<Node("alias", toks[i].v, <<>>)>>, j)
            ELSE IF r.ok
            THEN ParsedAll(<<Node("alias", toks[i].v, <<>>)>> \o r.nodes, r.pos)
            ELSE FailedAll
    \* atom: NAME | True | False | None | NUMBER | STRING+ | '(' expr ')'
    [] rule = "atom" ->
        LET t == TokAt(toks, i)
            r == ParseExpr(toks, i + 1)
        IN  CASE IsIdent(toks, i) -> Parsed(Node("Name", t.v, <<>>), i + 1)
              [] t.t = "NAME" /\ t.v \in ConstantNames ->
                     Parsed(Node("Constant", "", <<>>), i + 1)
              [] t.t = "NUMBER" -> Parsed(Node("Constant", "", <<>>), i + 1)
              [] t.t = "STRING" ->
                     Parsed(Node("Constant", "", <<>>), AfterStrings(toks, i))
              [] t = Tok("OP", "(") /\ r.ok /\ IsOp(toks, r.pos, ")") ->
                     Parsed(r.node, r.pos + 1)
              [] OTHER -> Failed
    \* arguments: [expr (',' expr)* [',']] ')'
    [] rule = "arguments" ->
        LET e == ParseExpr(toks, i)
            r == ParseArgs(toks, e.pos + 1)
        IN  IF IsOp(toks, i, ")") THEN ParsedAll(<<>>, i + 1)
            ELSE IF ~e.ok THEN FailedAll
            ELSE IF IsOp(toks, e.pos, ")") THEN ParsedAll(<<e.node>>, e.pos + 1)
            ELSE IF IsOp(toks, e.pos, ",") /\ r.ok
            THEN ParsedAll(<<e.node>> \o r.nodes, r.pos)
            ELSE FailedAll
    \* trailer*: '.' NAME makes an Attribute, '(' arguments ')' a Call
    [] rule = "trailers" ->
        LET a == ParseArgs(toks, i + 1)
        IN  CASE IsOp(toks, i, ".") /\ IsIdent(toks, i + 1) ->
                     ParseTrailers(toks, i + 2,
                                   Node("Attribute", toks[i + 1].v, <<left>>))
              [] IsOp(toks, i, ".") /\ ~IsIdent(toks, i + 1) -> Failed
              [] IsOp(toks, i, "(") /\ a.ok ->
                     ParseTrailers(toks, a.pos, Node("Call", "", <<left>> \o a.nodes))
              [] IsOp(toks, i, "(") /\ ~a.ok -> Failed
              [] OTHER -> Parsed(left, i)
    \* expr: atom trailer*
    [] rule = "expr" ->
        LET a == ParseAtom(toks, i)
        IN  IF a.ok THEN ParseTrailers(toks, a.pos, a.node) ELSE Failed
    \* expr ('=' expr)*: an expression statement or a (chained) assignment,
    \* whose targets must be names or attributes.
    [] rule = "assignment" ->
        LET e == ParseExpr(toks, i)
            r == ParseAssign(toks, e.pos + 1)
        IN  IF ~e.ok THEN Failed
            ELSE IF ~IsOp(toks, e.pos, "=") THEN Parsed(Node("Expr", "", <<e.node>>), e.pos)
            ELSE IF r.ok /\ e.node.type \in {"Name", "Attribute"}
            THEN Parsed(Node("Assign", "", <<e.node>> \o r.node.kids), r.pos)
            ELSE Failed
    \* simple_stmt: import, from-import, pass, raise, assignment, expression
    [] rule = "simple_stmt" ->
        LET a == ParseAliases(toks, i + 1)
            d == ParseDotted(toks, i + 1)
            n == IF d.ok /\ IsKw(toks, d.pos, "import")
                 THEN ParseFromNames(toks, d.pos + 1)
                 ELSE FailedAll
            e == ParseExpr(toks, i + 1)
        IN  CASE IsKw(toks, i, "import") ->
                     IF a.ok THEN Parsed(Node("Import", "", a.nodes), a.pos) ELSE Failed
              [] IsKw(toks, i, "from") ->
                     IF n.ok THEN Parsed(Node("ImportFrom", d.node.name, n.nodes), n.pos)
                     ELSE Failed
              [] IsKw(toks, i, "pass") -> Parsed(Node("Pass", "", <<>>), i + 1)
              [] IsKw(toks, i, "raise") /\ AtStmtEnd(toks, i + 1) ->
                     Parsed(Node("Raise", "", <<>>), i + 1)
              [] IsKw(toks, i, "raise") /\ ~AtStmtEnd(toks, i + 1) ->
                     IF e.ok THEN Parsed(Node("Raise", "", <<e.node>>), e.pos) ELSE Failed
              [] OTHER -> ParseAssign(toks, i)
    \* simple_stmts: simple_stmt (';' simple_stmt)* [';'] NEWLINE
    [] rule = "simple_stmts" ->
        LET s == ParseSimple(toks, i)
            j == IF s.ok /\ IsOp(toks, s.pos, ";") THEN s.pos + 1 ELSE s.pos
            r == ParseSimpleStmts(toks, j)
        IN  IF ~s.ok THEN FailedAll
            ELSE IF TokAt(toks, j).t = "NEWLINE" THEN ParsedAll(<<s.node>>, j + 1)
            ELSE IF j = s.pos THEN FailedAll
            ELSE IF r.ok THEN ParsedAll(<<s.node>> \o r.nodes, r.pos)
            ELSE FailedAll
    \* block: simple_stmts on the line of the ':' or, on the lines after it,
    \* statements indented more than the line of the ':'
    [] rule = "block" ->
        LET j == SkipNewlines(toks, i)
            b == ParseStatements(toks, j, LineIndent(toks, j))
        IN  IF TokAt(toks, i).t # "NEWLINE" THEN ParseSimpleStmts(toks, i)
            ELSE IF j > Len(toks) \/ LineIndent(toks, j) <= ind THEN FailedAll
            ELSE b
    \* ('except' [expr] ':' block)*: the handlers of a try statement, each on
    \* a line indented as the try
    [] rule = "handlers" ->
        LET j == SkipNewlines(toks, i)
            k == LineStart(toks, j)
            x == ParseExpr(toks, k + 1)
            e == IF IsOp(toks, k + 1, ":") THEN ParsedAll(<<>>, k + 1)
                 ELSE [ok |-> x.ok, nodes |-> <<x.node>>, pos |-> x.pos]
            b == IF e.ok /\ IsOp(toks, e.pos, ":")
                 THEN ParseBlock(toks, e.pos + 1, ind)
                 ELSE FailedAll
            r == IF b.ok THEN ParseHandlers(toks, b.pos, ind) ELSE FailedAll
        IN  IF LineIndent(toks, j) # ind \/ ~IsKw(toks, k, "except")
            THEN ParsedAll(<<>>, i)
            ELSE IF r.ok
            THEN ParsedAll(<<Node("ExceptHandler", "", e.nodes \o b.nodes)>> \o r.nodes,
                           r.pos)
            ELSE FailedAll
    \* one statement: a while, a try with its handlers, or simple_stmts
    [] rule = "statement" ->
        LET e  == ParseExpr(toks, i + 1)
            wb == IF e.ok /\ IsOp(toks, e.pos, ":")
                  THEN ParseBlock(toks, e.pos + 1, ind)
                  ELSE FailedAll
            tb == IF IsOp(toks, i + 1, ":") THEN ParseBlock(toks, i + 2, ind)
                  ELSE FailedAll
            h  == IF tb.ok THEN ParseHandlers(toks, tb.pos, ind) ELSE FailedAll
        IN  CASE IsKw(toks, i, "while") ->
                     [ok |-> wb.ok,
                      nodes |-> <<Node("While", "", <<e.node>> \o wb.nodes)>>,
                      pos |-> wb.pos]
              [] IsKw(toks, i, "try") ->
                     [ok |-> h.ok /\ Len(h.nodes) > 0,
                      nodes |-> <<Node("Try", "", tb.nodes \o h.nodes)>>,
                      pos |-> h.pos]
              [] OTHER -> ParseSimpleStmts(toks, i)
    \* statement*: the statements on the lines indented by ind from token i
    \* on, up to a line indented less; a line indented more is an error.
    [] rule = "statements" ->
        LET s == ParseStatement(toks, LineStart(toks, i), ind)
            r == IF s.ok THEN ParseStatements(toks, s.pos, ind) ELSE FailedAll
        IN  IF i > Len(toks) THEN ParsedAll(<<>>, i)
            ELSE IF toks[i].t = "NEWLINE" THEN ParseStatements(toks, i + 1, ind)
            ELSE IF LineIndent(toks, i) < ind THEN ParsedAll(<<>>, i)
            ELSE IF LineIndent(toks, i) > ind THEN FailedAll
            ELSE IF r.ok THEN ParsedAll(s.nodes \o r.nodes, r.pos)
            ELSE FailedAll

\* ast.parse(code): [ok |-> FALSE] stands for SyntaxError, otherwise tree is
\* the Module node.
AstParse(code) ==
    LET r == ParseStatements(Tokenize(code), 1, 0)
    IN  [ok |-> r.ok, tree |-> Node("Module", "", r.nodes)]

(***************************************************************************)
(* Static policy validator: _ASTValidator, _validate_ast, _check_security. *)
(***************************************************************************)

\* Optional[str]: None is the empty sequence, a string s is <<s>>.
None == <<>>
Some(s) == <<s>>

\* name.split(".")[0]
ModuleRoot(name) == Split(name, ".")[1]

\* attr.startswith("__") and attr.endswith("__")
IsDunder(attr) == StartsWithAt(attr, 1, "__") /\ EndsWith(attr, "__")

\* _ASTValidator.visit_Import: the violations of the node's own names.
visit_Import(node) ==
    LET blocked == SelectSeq(node.kids,
                       LAMBDA alias : ModuleRoot(alias.name) \in BLOCKED_MODULES)
    IN  [k \in 1..Len(blocked) |-> "Blocked import: " \o blocked[k].name]

\* _ASTValidator.visit_ImportFrom: the violation of the node's module.
visit_ImportFrom(node) ==
    IF node.name # "" /\ ModuleRoot(node.name) \in BLOCKED_MODULES
    THEN <<"Blocked import from: " \o node.name>>
    ELSE <<>>

\* visit_Call without its check of the called name.
visit_CallDunderOnly(node) ==
    LET func == node.kids[1]
    IN  IF func.type = "Attribute" /\ IsDunder(func.name)
        THEN <<"Blocked dunder access: ." \o func.name>>
        ELSE <<>>

\* _ASTValidator.visit_Call: the violations of the call's own func.
visit_Call(node) ==
    LET func == node.kids[1]
    IN  (IF func.type = "Name" /\ func.name \in BLOCKED_BUILTINS
         THEN <<"Blocked builtin call: " \o func.name \o "()">>
         ELSE <<>>)
        \o
        (IF func.type = "Attribute" /\ IsDunder(func.name)
         THEN <<"Blocked dunder access: ." \o func.name>>
         ELSE <<>>)

\* _ASTValidator.visit_Attribute: the violation of the node's own attr.
visit_Attribute(node) ==
    IF IsDunder(node.name)
    THEN <<"Blocked dunder attribute: ." \o node.name>>
    ELSE <<>>

\* NodeVisitor.visit: the class's visit_ method, each of which ends with
\* generic_visit (the visit of every child, in field order).
RECURSIVE visit(_)
RECURSIVE generic_visit(_, _)
visit(node) ==
    (CASE node.type = "Import"     -> visit_Import(node)
       [] node.type = "ImportFrom" -> visit_ImportFrom(node)
       [] node.type = "Call"       -> visit_Call(node)
       [] node.type = "Attribute"  -> visit_Attribute(node)
       [] OTHER                    -> <<>>)
    \o generic_visit(node, 1)
generic_visit(node, k) ==
    IF k > Len(node.kids) THEN <<>>
    ELSE visit(node.kids[k]) \o generic_visit(node, k + 1)

\* The text of a SyntaxError: its detail is the parser's and is not modelled.
SyntaxErrorText == "SyntaxError: invalid syntax"

RECURSIVE ViolationLines(_)
ViolationLines(vs) ==
    IF Len(vs) = 0 THEN ""
    ELSE "  - " \o vs[1] \o (IF Len(vs) > 1 THEN "\n" ELSE "") \o ViolationLines(Tail(vs))

\* A validator that walks whatever tree the parser left, without the
\* SyntaxError report.
_validate_astNoSyntaxError(code) ==
    LET violations == visit(AstParse(code).tree)
    IN  IF Len(violations) > 0
        THEN Some("SECURITY VIOLATION:\n" \o ViolationLines(violations))
        ELSE None

_validate_ast(code) ==
    LET p == AstParse(code)
        violations == visit(p.tree)
    IN  IF ~p.ok THEN Some(SyntaxErrorText)
        ELSE IF Len(violations) > 0
        THEN Some("SECURITY VIOLATION:\n" \o ViolationLines(violations))
        ELSE None

\* Layer 1: the modules the string scan finds.
ScanModules(code) ==
    { module \in BLOCKED_MODULES :
          Contains(code, "import " \o module) \/ Contains(code, "from " \o module) }

\* Layer 2: the builtins the string scan finds.
ScanBuiltins(code) ==
    { builtin \in BLOCKED_BUILTINS : Contains(code, builtin \o "(") }

\* CodeInterpreter._check_security: the values it can return.  The loops run
\* over frozensets, whose iteration order is not fixed: any module (builtin)
\* the scan finds can be the first one found.
_check_security(code) ==
    IF ScanModules(code) # {}
    THEN { Some("SECURITY: import of '" \o module \o "' is blocked.") :
               module \in ScanModules(code) }
    ELSE IF ScanBuiltins(code) # {}
    THEN { Some("SECURITY: '" \o builtin \o "()' is blocked.") :
               builtin \in ScanBuiltins(code) }
    ELSE { _validate_ast(code) }

(***************************************************************************)
(* Inputs: the programs, the tables and what a program does when it runs.  *)
(***************************************************************************)

\* The output cap, scaled down from 50 * 1024 so that a run can exceed it.
MAX_OUTPUT_BYTES == 4

\* The import forms of a module m (the forms of one import statement).
ImportForms(m) ==
    { "import " \o m,
      "import " \o m \o ".sub",
      "import " \o m \o " as a",
      "import a, " \o m,
      "import datetime, " \o m,
      "from " \o m \o " import x",
      "from " \o m \o ".sub import x",
      "import  " \o m,
      "from\t" \o m \o " import x" }

\* Statements of generated code, one line each (the try statement two).
Statements ==
    { "print(sum(x))",
      "df.groupby('a').first()",
      "import os",
      "import numpy",
      "import datetime",
      "from datetime import date",
      "import pandas as pd",
      "x.__class__.__subclasses__()",
      "y = x.__dict__",
      "pd.read_csv(f).__class__",
      "eval('1')",
      "print(eval ('1'))",
      "x = open ('f')",
      "while True: pass",
      "try: x = 1\nexcept Exception: pass",
      "while True:\n try:\n  while True:\n   x = 1\n except Exception:\n  pass",
      "raise Exception.mro().pop(1)()",
      "__builtins__.clear()",
      "dfs.clear()",
      "df.extend(df)",
      "if True print('x')" }

Separators == { "\n", "; " }

\* Statements that come first in a two-statement program.
FirstStatements ==
    { "import datetime",
      "import pandas as pd" }

\* Code that the rewriter changes again when it is given its own output, code
\* whose string literal holds the text of a call, and text that does not
\* parse and holds the text of a call.
EdgePrograms ==
    { "df.collect.lazy()()",
      "print('eval(x)')",
      "x = eval(" }

\* The code strings execute is called with.
Programs ==
    (UNION { ImportForms(m) : m \in BLOCKED_MODULES })
    \cup Statements
    \cup EdgePrograms
    \cup { a \o sep \o b : a \in FirstStatements, b \in Statements, sep \in Separators }

\* A table: its column names and its rows.
TableA == [columns |-> <<"a">>, rows |-> << <<1>>, <<2>> >>]
TableB == [columns |-> <<"b">>, rows |-> << <<3>> >>]
TableC == [columns |-> <<"c">>, rows |-> << >>]

\* A mapping without entries (an empty dict).
EmptyMap == [n \in {} |-> TableA]

\* The (df, dfs) arguments of execute; df is None or a table.
TableArguments ==
    { [df |-> <<>>, dfs |-> EmptyMap],
      [df |-> <<TableA>>,
       dfs |-> [n \in {"sales", "dfs"} |-> IF n = "sales" THEN TableC ELSE TableB]] }

\* The text a run prints.
Printed == { "", "6\n", "1234567890123456789012345678901234567890123456789\n" }

\* The nodes of a tree, in any order.
RECURSIVE Nodes(_)
Nodes(node) ==
    {node} \cup UNION { Nodes(node.kids[k]) : k \in 1..Len(node.kids) }

\* The node is a handler that catches every Exception: except: or
\* except Exception: (the first child of a handler with a type is an
\* expression, of a handler without one a statement).
CatchesException(node) ==
    /\ node.type = "ExceptHandler"
    /\ \/ node.kids[1].type \notin {"Name", "Attribute", "Call", "Constant"}
       \/ node.kids[1] = Node("Name", "Exception", <<>>)

\* What exec(code, safe_globals, locals_dict) can do for the code of a tree:
\*   outcome "return"      the code runs to its end;
\*           "raise"       it raises an Exception;
\*           "raise_base"  it raises a BaseException that is no Exception
\*                         (raise Exception.mro().pop(1)());
\*           "loop"        it never ends, an exception raised in it ends it;
\*           "loop_catch"  it never ends and catches every Exception raised
\*                         in it;
\*           "die"         its process dies (crash, kill for memory);
\*   printed               the text it prints before that;
\*   builtins              the keys it leaves in the dict its __builtins__
\*                         names (it can change the dict through that name);
\*   mutation              the object it changes in place through a local
\*                         name: "df" (df.extend), "dfs" (dfs.clear), "none".
\* Each needs the syntax that can do it; code without statements returns.
Behaviours(tree, builtins) ==
    LET ns == Nodes(tree)
        canPrint == \E n \in ns : n.type = "Call" /\ n.kids[1] = Node("Name", "print", <<>>)
        canLoop  == \E n \in ns : n.type = "While"
        canCatch == \E n \in ns :
                        /\ n.type = "While"
                        /\ \E t \in Nodes(n) :
                               /\ t.type = "Try"
                               /\ \E k \in 1..Len(t.kids) : CatchesException(t.kids[k])
        canRaise == \E n \in ns : n.type = "Raise"
        canReach == \E n \in ns : n = Node("Name", "__builtins__", <<>>)
        canMutate(name, method) ==
            \E n \in ns : /\ n.type = "Call"
                          /\ n.kids[1] = Node("Attribute", method,
                                              <<Node("Name", name, <<>>)>>)
    IN  { b \in [outcome  : {"return", "raise", "raise_base", "loop", "loop_catch", "die"},
                 printed  : Printed,
                 builtins : {builtins, {}},
                 mutation : {"none", "df", "dfs"}] :
            /\ b.mutation = "df" => canMutate("df", "extend")
            /\ b.mutation = "dfs" => canMutate("dfs", "clear")
            /\ Len(tree.kids) = 0 => b.outcome = "return"
            /\ b.printed # "" => canPrint
            /\ b.outcome = "raise_base" => canRaise
            /\ b.outcome \in {"loop", "loop_catch"} => canLoop
            /\ b.outcome = "loop_catch" => canCatch
            /\ b.builtins # builtins => canReach }

(***************************************************************************)
(* The executor: CodeInterpreter.execute, _execute_in_subprocess, _worker, *)
(* _execute_inline and _timeout_handler.                                   *)
(***************************************************************************)

VARIABLES
    attempts,         \* the calls of execute made in the agent's turn
    llm_calls,        \* the corrective LLM calls made in the turn
    pc,               \* where execute is: "idle" before the first call,
                      \* "retry" before the coordinator's second call
    code,             \* execute's argument code
    df,               \* execute's argument df: None (<<>>) or <<table>>
    dfs,              \* execute's argument dfs: a mapping name -> table
    use_subprocess,   \* execute's argument use_subprocess
    rewritten,        \* code after _preprocess_code
    security_error,   \* what _check_security returned
    ast,              \* the syntax tree of the rewritten text (AstParse)
    result,           \* <<the dict execute returned>>, <<>> before it returns
    process,          \* the child: "none", "started", "exec", "put",
                      \* "killed" (SIGKILL sent, not dead yet), "exited"
    result_queue,     \* the outcomes put on the multiprocessing.Queue
    behaviour,        \* what the running code does (see Behaviours)
    iteration,        \* the parity of the iterations of a loop that never ends
    memory_cap,       \* RLIMIT_AS of the process that runs the code: "none"
                      \* (no run), "set" (setrlimit done), "unset"
    exec_code,        \* the text given to exec, <<>> before exec is called
    output_buffer,    \* the text captured by the StringIO of the run
    namespace,        \* the names exec was given when the run began
    sys_stdout,       \* the host's sys.stdout: "stdout", "buffer" (the
                      \* call's StringIO), "other_buffer" (the StringIO of
                      \* another thread's call), "closed" (a closed StringIO)
    old_stdout,       \* the sys.stdout the inline call saved
    other_pc,         \* another thread's inline call: "idle", "redirected"
    other_old_stdout, \* the sys.stdout that call saved
    old_handler,      \* the handler signal.signal returned
    sigalrm_handler,  \* the host's SIGALRM handler
    alarm_pending,    \* an alarm armed by signal.alarm is pending
    safe_builtins,    \* the keys of the host's module-level dict SAFE_BUILTINS
    spawned,          \* the child processes this call started
    executed,         \* this call reached exec(code, ...)
    a_pc,             \* where the agent's turn is: "idle", "turn1", "exec1",
                      \* "wait1", "retry", "exec2", "wait2", "refine", "done"
    endpoint,         \* the endpoint of the turn: "query" or "stream"
    loop_thread,      \* the event loop's thread: "free" or "agent" (it runs
                      \* the endpoint's coroutine)
    other_ticks,      \* the steps another coroutine of the loop has made
    python_code,      \* the agent's python_code: <<>> or <<code>>
    exec_result,      \* the agent's exec_result: <<>> or <<dict>>
    llm_log,          \* the calls of _call_llm made in the turn
    exec_log,         \* the calls of interpreter.execute made in the turn
    memory,           \* the messages saved in the chat history
    response,         \* what the turn returned: <<>> or <<response>>
    storage_dir,      \* the uploaded files: filename -> <<>> or <<content>>
    _cache,           \* DataFrameCache._cache: filename -> <<>> or <<table>>
    returned          \* what get_or_parse returned to the last query

interpreter == <<attempts, llm_calls, exec_code, pc, code, df, dfs, use_subprocess, rewritten, security_error, ast,
          result, process, result_queue, behaviour, iteration, memory_cap,
          output_buffer,
          namespace,
          sys_stdout, old_stdout, other_pc, other_old_stdout,
          old_handler, sigalrm_handler, alarm_pending,
          safe_builtins, spawned, executed>>

agent == <<a_pc, endpoint, loop_thread, other_ticks, python_code, exec_result,
           llm_log, exec_log, memory, response>>
storage == <<storage_dir, _cache, returned>>

vars == <<interpreter, agent, storage>>

host == <<sys_stdout, old_stdout, other_pc, other_old_stdout,
          old_handler, sigalrm_handler, alarm_pending, safe_builtins>>
threads == <<old_stdout, other_pc, other_old_stdout>>
arguments == <<code, df, dfs, use_subprocess>>
gate == <<rewritten, security_error, ast>>
running == <<behaviour, iteration, memory_cap, exec_code>>
turn == <<attempts, llm_calls>>
child == <<process, result_queue>>

\* The dict execute returns.
Result(success, output, error) ==
    [success |-> success, output |-> output, error |-> error]

NoBehaviour == [outcome |-> "none", printed |-> "", builtins |-> {}, mutation |-> "none"]
NoNamespace == [globals |-> {}, builtins |-> {}, locals |-> {}, values |-> EmptyMap]
NoAst == [ok |-> TRUE, tree |-> Node("Module", "", <<>>)]

\* traceback.format_exc(): the frames are not modelled.
TracebackText == "Traceback (most recent call last):\n"

\* The names pre-injected into safe_globals next to __builtins__.
InjectedGlobals == {"pl", "datetime", "math", "re", "collections"}

\* The gate's test inverted (if not security_error).
IsTrueInverted(opt) == ~(opt # None /\ opt[1] # "")

\* if security_error: (a non-empty string is true, None is false)
IsTrue(opt) == opt # None /\ opt[1] # ""

\* DataFrame.to_dicts(): one dict (column name -> value) for each row.
to_dicts(t) ==
    [k \in 1..Len(t.rows) |->
        [c \in 1..Len(t.columns) |-> <<t.columns[c], t.rows[k][c]>>]]

\* pl.DataFrame(records): the columns are the keys of the records.
DataFrame(records) ==
    IF Len(records) = 0 THEN [columns |-> <<>>, rows |-> <<>>]
    ELSE [columns |-> [c \in 1..Len(records[1]) |-> records[1][c][1]],
          rows |-> [k \in 1..Len(records) |->
                       [c \in 1..Len(records[k]) |-> records[k][c][2]]]]

\* env_data of _execute_in_subprocess: the keys "df" and "dfs" are optional.
EnvData(d, ds) ==
    [df  |-> IF d # <<>> THEN <<to_dicts(d[1])>> ELSE <<>>,
     dfs |-> IF DOMAIN ds # {}
             THEN <<[n \in DOMAIN ds |-> to_dicts(ds[n])]>> ELSE <<>>]

\* locals_dict of _worker, built from env_data.
WorkerLocals(env) ==
    LET d0 == IF env.df # <<>> THEN [n \in {"df"} |-> DataFrame(env.df[1])]
              ELSE [n \in {} |-> TableA]
        ds == IF env.dfs # <<>>
              THEN [n \in DOMAIN env.dfs[1] |-> DataFrame(env.dfs[1][n])]
              ELSE [n \in {} |-> TableA]
    IN  IF env.dfs # <<>>
        THEN [n \in DOMAIN d0 \cup DOMAIN ds \cup {"dfs"} |->
                 IF n = "dfs" THEN ds
                 ELSE IF n \in DOMAIN ds THEN ds[n] ELSE d0[n]]
        ELSE d0

\* locals_dict of _execute_inline, built from the caller's objects.
InlineLocals(d, ds) ==
    LET d0 == IF d # <<>> THEN [n \in {"df"} |-> d[1]] ELSE [n \in {} |-> TableA]
    IN  IF DOMAIN ds # {}
        THEN [n \in DOMAIN d0 \cup DOMAIN ds \cup {"dfs"} |->
                 IF n = "dfs" THEN ds
                 ELSE IF n \in DOMAIN ds THEN ds[n] ELSE d0[n]]
        ELSE d0

\* The names exec resolves: safe_globals without its "__builtins__" entry,
\* the keys of the dict given as "__builtins__", and locals_dict (its keys
\* and what each names).
Namespace(builtins, locals) ==
    [globals |-> InjectedGlobals, builtins |-> builtins,
     locals |-> DOMAIN locals, values |-> locals]

\* DataFrame.extend(other): the rows of other are appended in place.
extend(t, other) == [columns |-> t.columns, rows |-> t.rows \o other.rows]

\* The locals the code's in-place change needs: df names a table, dfs the
\* mapping.
CanMutate(b, locals) ==
    /\ b.mutation = "df" => "df" \in DOMAIN locals
    /\ b.mutation = "dfs" => "dfs" \in DOMAIN locals

\* A cap that appends no marker.
WorkerOutputNoMarker(output) ==
    IF Len(output) > MAX_OUTPUT_BYTES
    THEN SubSeq(output, 1, MAX_OUTPUT_BYTES)
    ELSE output

\* The output of a successful run in the child (lines 217-219).
WorkerOutput(output) ==
    IF Len(output) > MAX_OUTPUT_BYTES
    THEN SubSeq(output, 1, MAX_OUTPUT_BYTES)
             \o "\n... [OUTPUT TRUNCATED at " \o ToString(MAX_OUTPUT_BYTES) \o " bytes]"
    ELSE output

\* The output of a successful inline run (lines 383-385).
InlineOutput(output) ==
    IF Len(output) > MAX_OUTPUT_BYTES
    THEN SubSeq(output, 1, MAX_OUTPUT_BYTES) \o "\n... [OUTPUT TRUNCATED]"
    ELSE output

\* What _worker puts on the queue when the code ran to its end.
WorkerSuccess(output) == Result(TRUE, WorkerOutput(output), None)

\* A failure outcome that carries no error.
WorkerFailureNoError(output) == Result(FALSE, output, None)

\* What _worker puts on the queue when the code raised an Exception.
WorkerFailure(output) == Result(FALSE, output, Some(TracebackText))

\* What execute returns when the security gate rejects the code.
Rejection(error) == Result(FALSE, "", error)

\* str(TimeoutError) raised by _timeout_handler.
TimeoutText == "Code execution exceeded " \o ToString(EXEC_TIMEOUT_SECONDS) \o "s limit"

\* What _execute_in_subprocess returns after it killed the child.
KilledResult == Result(FALSE, "", Some(TimeoutText \o " (process killed)"))

\* An empty queue taken for a run that printed nothing.
SilentSuccess == Result(TRUE, "", None)

\* What _execute_in_subprocess returns when the queue is empty.
NoResult ==
    Result(FALSE, "",
           Some("Execution produced no result (process crashed or memory limit exceeded)"))

\* finally of _execute_inline (lines 392-394): sys.stdout = old_stdout and
\* output_buffer.close(); a reference another thread saved to the buffer
\* now names a closed StringIO.
RestoreStdout ==
    /\ sys_stdout' = old_stdout
    /\ old_stdout' = "stdout"
    /\ other_old_stdout' =
           IF other_old_stdout = "buffer" THEN "closed" ELSE other_old_stdout
    /\ UNCHANGED other_pc

\* The names of the files a client uploads.
FileNames == { "sales.csv", "costs.csv" }

\* process.is_alive()
is_alive == process \in {"started", "exec", "put", "killed"}

Init ==
    /\ attempts = 0
    /\ llm_calls = 0
    /\ exec_code = <<>>
    /\ pc = "idle"
    /\ code = ""
    /\ df = <<>>
    /\ dfs = EmptyMap
    /\ use_subprocess = TRUE
    /\ rewritten = ""
    /\ security_error = None
    /\ ast = NoAst
    /\ result = <<>>
    /\ process = "none"
    /\ result_queue = <<>>
    /\ behaviour = NoBehaviour
    /\ iteration = 0
    /\ memory_cap = "none"
    /\ output_buffer = ""
    /\ namespace = NoNamespace
    /\ sys_stdout = "stdout"
    /\ old_stdout = "stdout"
    /\ other_pc = "idle"
    /\ other_old_stdout = "stdout"
    /\ old_handler = "SIG_DFL"
    /\ sigalrm_handler = "SIG_DFL"
    /\ alarm_pending = FALSE
    /\ safe_builtins = SAFE_BUILTINS
    /\ spawned = 0
    /\ executed = FALSE
    /\ a_pc = "idle"
    /\ endpoint = "query"
    /\ loop_thread = "free"
    /\ other_ticks = 0
    /\ python_code = <<>>
    /\ exec_result = <<>>
    /\ llm_log = <<>>
    /\ exec_log = <<>>
    /\ memory = <<>>
    /\ response = <<>>
    /\ storage_dir = [f \in FileNames |-> <<>>]
    /\ _cache = [f \in FileNames |-> <<>>]
    /\ returned = <<>>

\* The code argument execute passes on to _execute_in_subprocess or
\* _execute_inline: the submitted text.
SubmittedCode == code

\* The code argument execute passes on to _execute_in_subprocess or
\* _execute_inline (lines 307-310): the local code, rebound to the rewritten
\* text at line 300.
CodeArgument == rewritten

\* A caller calls execute(code, df, dfs, use_subprocess) and lines 299-310
\* run: rewrite, security gate, choice of the mode.  A call in subprocess
\* mode is the first call of AnalystAgent._execute_with_retry (line 309);
\* its second call (line 336) passes the code of the LLM's answer with the
\* same tables.
Execute ==
    /\ pc \in {"idle", "retry"}
    /\ attempts' = attempts + 1
    /\ UNCHANGED llm_calls
    /\ \E c \in Programs :
           /\ code' = c
           /\ rewritten' = _preprocess_code(c)
    /\ ast' = AstParse(rewritten')
    /\ \E e \in _check_security(rewritten') :
           /\ security_error' = e
           /\ \E t \in TableArguments, m \in BOOLEAN :
                  /\ pc = "retry" => (m /\ t.df = df /\ t.dfs = dfs)
                  /\ df' = t.df
                  /\ dfs' = t.dfs
                  /\ use_subprocess' = m
                  /\ IF IsTrue(e)
                     THEN /\ result' = <<Rejection(e)>>
                          /\ pc' = "returned"
                     ELSE /\ result' = <<>>
                          /\ pc' = IF m THEN "subprocess" ELSE "inline"
    /\ UNCHANGED <<child, running, output_buffer, namespace, host,
                   spawned, executed>>
    /\ UNCHANGED <<agent, storage>>

\* The callers have the outcomes of their calls (the returned dict or the
\* raised exception); the objects of the call are gone.
Done ==
    /\ pc \in {"returned", "raised"}
    /\ other_pc = "idle"
    /\ pc = "returned" => (~use_subprocess \/ result[1].success \/ llm_calls = 1)
    /\ pc' = "idle"
    /\ code' = ""
    /\ df' = <<>>
    /\ dfs' = EmptyMap
    /\ use_subprocess' = TRUE
    /\ rewritten' = ""
    /\ security_error' = None
    /\ ast' = NoAst
    /\ result' = <<>>
    /\ process' = "none"
    /\ result_queue' = <<>>
    /\ behaviour' = NoBehaviour
    /\ iteration' = 0
    /\ memory_cap' = "none"
    /\ exec_code' = <<>>
    /\ attempts' = 0
    /\ llm_calls' = 0
    /\ output_buffer' = ""
    /\ namespace' = NoNamespace
    /\ spawned' = 0
    /\ executed' = FALSE
    /\ UNCHANGED host
    /\ UNCHANGED <<agent, storage>>

\* What LlmCall does when the LLM has answered: llm_calls counts the call;
\* with python_code in the answer the coordinator goes on to its second
\* execute with the same tables (the first call's objects are gone),
\* without (no code, or JSON that does not parse) it keeps the first result.
Corrective ==
    /\ llm_calls' = llm_calls + 1
    /\ \/ /\ pc' = "retry"
          /\ code' = ""
          /\ rewritten' = ""
          /\ security_error' = None
          /\ ast' = NoAst
          /\ result' = <<>>
          /\ process' = "none"
          /\ result_queue' = <<>>
          /\ behaviour' = NoBehaviour
          /\ iteration' = 0
          /\ memory_cap' = "none"
          /\ exec_code' = <<>>
          /\ output_buffer' = ""
          /\ namespace' = NoNamespace
          /\ spawned' = 0
          /\ executed' = FALSE
          /\ UNCHANGED <<attempts, df, dfs, use_subprocess, host>>
       \/ UNCHANGED <<attempts, pc, arguments, gate, result, child, running,
                      output_buffer, namespace, host, spawned, executed>>
    /\ UNCHANGED <<agent, storage>>

\* A coordinator that asks the LLM again after every failed attempt.
LlmCallLooping ==
    /\ pc = "returned"
    /\ use_subprocess
    /\ ~result[1].success
    /\ Corrective

\* AnalystAgent._execute_with_retry, lines 311-339: the first call returned
\* success = false (whatever the failure), the coordinator appends the retry
\* prompt and calls the LLM once.
LlmCall ==
    /\ pc = "returned"
    /\ use_subprocess
    /\ ~result[1].success
    /\ attempts = 1
    /\ llm_calls = 0
    /\ Corrective

\* _execute_in_subprocess, lines 317-330: serialise the tables, create the
\* queue and the process, start it and wait in join.
StartProcess ==
    /\ pc = "subprocess"
    /\ result_queue' = <<>>
    /\ process' = "started"
    /\ spawned' = spawned + 1
    /\ pc' = "join"
    /\ UNCHANGED <<arguments, gate, turn, result, running, output_buffer, namespace,
                   host, executed>>
    /\ UNCHANGED <<agent, storage>>

\* _worker, lines 184-215: the child sets its address-space limit, or
\* setrlimit raises ValueError or resource.error and the except clause
\* passes; it redirects its stdout, rebuilds the tables and calls exec; the
\* code begins to run and prints.
WorkerExec ==
    /\ process = "started"
    /\ memory_cap' \in {"set", "unset"}
    /\ exec_code' = <<CodeArgument>>
    /\ \E b \in Behaviours(ast.tree, safe_builtins) :
           /\ CanMutate(b, WorkerLocals(EnvData(df, dfs)))
           /\ behaviour' = b
           /\ iteration' = 0
           /\ output_buffer' = b.printed
    /\ namespace' = Namespace(safe_builtins, WorkerLocals(EnvData(df, dfs)))
    /\ executed' = TRUE
    /\ process' = "exec"
    /\ UNCHANGED <<pc, arguments, gate, turn, result, result_queue, host, spawned>>
    /\ UNCHANGED <<agent, storage>>

\* _worker, lines 217-221: the code ran to its end, the outcome is put.
WorkerReturn ==
    /\ process = "exec"
    /\ behaviour.outcome = "return"
    /\ result_queue' = Append(result_queue, WorkerSuccess(output_buffer))
    /\ process' = "put"
    /\ UNCHANGED <<pc, arguments, gate, turn, result, running, output_buffer, namespace,
                   host, spawned, executed>>
    /\ UNCHANGED <<agent, storage>>

\* _worker, lines 222-223: the code raised an Exception, the outcome is put.
WorkerRaise ==
    /\ process = "exec"
    /\ behaviour.outcome = "raise"
    /\ result_queue' = Append(result_queue, WorkerFailure(output_buffer))
    /\ process' = "put"
    /\ UNCHANGED <<pc, arguments, gate, turn, result, running, output_buffer, namespace,
                   host, spawned, executed>>
    /\ UNCHANGED <<agent, storage>>

\* The child dies without an outcome: it crashed or was killed for memory,
\* or the code raised a BaseException that except Exception lets through.
WorkerDie ==
    /\ process = "exec"
    /\ behaviour.outcome \in {"die", "raise_base"}
    /\ process' = "exited"
    /\ UNCHANGED <<pc, arguments, gate, turn, result, result_queue, running,
                   output_buffer, namespace, host, spawned, executed>>
    /\ UNCHANGED <<agent, storage>>

\* The child exits after _worker returned, once the queue's feeder thread has
\* written the outcome to the pipe (a write that waits for the parent to read
\* when the outcome is larger than the pipe).
WorkerExit ==
    /\ process = "put"
    /\ process' = "exited"
    /\ UNCHANGED <<pc, arguments, gate, turn, result, result_queue, running,
                   output_buffer, namespace, host, spawned, executed>>
    /\ UNCHANGED <<agent, storage>>

\* process.join(timeout=EXEC_TIMEOUT_SECONDS) returns: the child has exited.
JoinExited ==
    /\ pc = "join"
    /\ process = "exited"
    /\ pc' = "joined"
    /\ UNCHANGED <<arguments, gate, turn, result, child, running, output_buffer,
                   namespace, host, spawned, executed>>
    /\ UNCHANGED <<agent, storage>>

\* process.join(timeout=EXEC_TIMEOUT_SECONDS) returns: the timeout elapsed.
JoinTimeout ==
    /\ pc = "join"
    /\ process # "exited"
    /\ pc' = "joined"
    /\ UNCHANGED <<arguments, gate, turn, result, child, running, output_buffer,
                   namespace, host, spawned, executed>>
    /\ UNCHANGED <<agent, storage>>

\* Lines 332-333: the child is alive and is sent SIGKILL.
Kill ==
    /\ pc = "joined"
    /\ is_alive
    /\ process' = "killed"
    /\ pc' = "join2"
    /\ UNCHANGED <<arguments, gate, turn, result, result_queue, running,
                   output_buffer, namespace, host, spawned, executed>>
    /\ UNCHANGED <<agent, storage>>

\* The killed child dies.
ChildDies ==
    /\ process = "killed"
    /\ process' = "exited"
    /\ UNCHANGED <<pc, arguments, gate, turn, result, result_queue, running,
                   output_buffer, namespace, host, spawned, executed>>
    /\ UNCHANGED <<agent, storage>>

\* Lines 334-339: process.join(timeout=2) returns, because the child died or
\* because the two seconds elapsed, and the timeout result is returned.
ReturnKilled ==
    /\ pc = "join2"
    /\ result' = <<KilledResult>>
    /\ pc' = "returned"
    /\ UNCHANGED <<arguments, gate, turn, child, running, output_buffer, namespace,
                   host, spawned, executed>>
    /\ UNCHANGED <<agent, storage>>

\* Lines 341-348: the child is not alive; the queue is empty or holds the
\* outcome.
ReturnOutcome ==
    /\ pc = "joined"
    /\ ~is_alive
    /\ IF result_queue = <<>>
       THEN /\ result' = <<NoResult>>
            /\ result_queue' = result_queue
       ELSE /\ result' = <<Head(result_queue)>>
            /\ result_queue' = Tail(result_queue)
    /\ pc' = "returned"
    /\ UNCHANGED <<arguments, gate, turn, process, running, output_buffer, namespace,
                   host, spawned, executed>>
    /\ UNCHANGED <<agent, storage>>

\* _execute_inline, lines 355-378, when signal.signal raises ValueError (the
\* caller is not the main thread): except Exception returns the traceback,
\* finally restores sys.stdout.
InlineNoSignal ==
    /\ pc = "inline"
    /\ output_buffer' = ""
    /\ result' = <<Result(FALSE, "", Some(TracebackText))>>
    /\ alarm_pending' = FALSE
    /\ pc' = "returned"
    /\ UNCHANGED <<arguments, gate, turn, child, running, namespace, sys_stdout,
                   threads, old_handler, sigalrm_handler, safe_builtins,
                   spawned, executed>>
    /\ UNCHANGED <<agent, storage>>

\* _execute_inline, lines 355-378: the namespace is built from the host's
\* objects, sys.stdout is redirected, the handler installed, the alarm armed
\* and exec called; the code begins to run, prints and changes what it can
\* reach.
InlineExec ==
    /\ pc = "inline"
    /\ \E b \in Behaviours(ast.tree, safe_builtins) :
           /\ b.outcome # "die"
           /\ CanMutate(b, InlineLocals(df, dfs))
           /\ behaviour' = b
           /\ iteration' = 0
           /\ output_buffer' = b.printed
           /\ safe_builtins' = b.builtins
           /\ df' = IF b.mutation = "df" /\ "df" \notin DOMAIN dfs
                    THEN <<extend(df[1], df[1])>> ELSE df
           /\ dfs' = IF b.mutation = "dfs" THEN EmptyMap ELSE dfs
    /\ namespace' = Namespace(safe_builtins, InlineLocals(df, dfs))
    /\ old_stdout' = sys_stdout
    /\ sys_stdout' = "buffer"
    /\ memory_cap' = "unset"
    /\ exec_code' = <<CodeArgument>>
    /\ UNCHANGED <<other_pc, other_old_stdout>>
    /\ old_handler' = sigalrm_handler
    /\ sigalrm_handler' = "_timeout_handler"
    /\ alarm_pending' = TRUE
    /\ executed' = TRUE
    /\ pc' = "inline_exec"
    /\ UNCHANGED <<code, use_subprocess, gate, turn, result, child, spawned>>
    /\ UNCHANGED <<agent, storage>>

\* Lines 380-387 and finally: the code ran to its end; the alarm is
\* cancelled, the handler restored and the output returned.
InlineReturn ==
    /\ pc = "inline_exec"
    /\ behaviour.outcome = "return"
    /\ alarm_pending' = FALSE
    /\ sigalrm_handler' = old_handler
    /\ result' = <<Result(TRUE, InlineOutput(output_buffer), None)>>
    /\ RestoreStdout
    /\ pc' = "returned"
    /\ UNCHANGED <<arguments, gate, turn, child, running, output_buffer, namespace,
                   old_handler, safe_builtins, spawned, executed>>
    /\ UNCHANGED <<agent, storage>>

\* The code raised an Exception: control is in except Exception (line 390),
\* the alarm still armed.
InlineRaise ==
    /\ pc = "inline_exec"
    /\ behaviour.outcome = "raise"
    /\ pc' = "inline_except"
    /\ UNCHANGED <<arguments, gate, turn, result, child, running, output_buffer,
                   namespace, host, spawned, executed>>
    /\ UNCHANGED <<agent, storage>>

\* Lines 390-398: except Exception returns the traceback; finally restores
\* sys.stdout and cancels the alarm.
InlineExcept ==
    /\ pc = "inline_except"
    /\ result' = <<Result(FALSE, output_buffer, Some(TracebackText))>>
    /\ RestoreStdout
    /\ alarm_pending' = FALSE
    /\ pc' = "returned"
    /\ UNCHANGED <<arguments, gate, turn, child, running, output_buffer, namespace,
                   old_handler, sigalrm_handler, safe_builtins, spawned, executed>>
    /\ UNCHANGED <<agent, storage>>

\* The code raised a BaseException that is no Exception: no except clause
\* catches it, finally runs and execute raises it to its caller.
InlineRaiseBase ==
    /\ pc = "inline_exec"
    /\ behaviour.outcome = "raise_base"
    /\ RestoreStdout
    /\ alarm_pending' = FALSE
    /\ pc' = "raised"
    /\ UNCHANGED <<arguments, gate, turn, result, child, running, output_buffer,
                   namespace, old_handler, sigalrm_handler, safe_builtins,
                   spawned, executed>>
    /\ UNCHANGED <<agent, storage>>

\* SIGALRM is delivered while exec runs: _timeout_handler raises TimeoutError
\* in the running code.  Code that catches every Exception goes on; otherwise
\* except TimeoutError (line 388) returns the message and finally runs.
AlarmInExec ==
    /\ pc = "inline_exec"
    /\ alarm_pending
    /\ sigalrm_handler = "_timeout_handler"
    /\ alarm_pending' = FALSE
    /\ IF behaviour.outcome = "loop_catch"
       THEN UNCHANGED <<pc, result, sys_stdout, threads>>
       ELSE /\ result' = <<Result(FALSE, output_buffer, Some(TimeoutText))>>
            /\ RestoreStdout
            /\ pc' = "returned"
    /\ UNCHANGED <<arguments, gate, turn, child, running, output_buffer, namespace,
                   old_handler, sigalrm_handler, safe_builtins, spawned, executed>>
    /\ UNCHANGED <<agent, storage>>

\* SIGALRM is delivered while control is in except Exception: the
\* TimeoutError is raised outside the try body, finally runs and execute
\* raises it to its caller.
AlarmInExcept ==
    /\ pc = "inline_except"
    /\ alarm_pending
    /\ sigalrm_handler = "_timeout_handler"
    /\ alarm_pending' = FALSE
    /\ RestoreStdout
    /\ pc' = "raised"
    /\ UNCHANGED <<arguments, gate, turn, result, child, running, output_buffer,
                   namespace, old_handler, sigalrm_handler, safe_builtins,
                   spawned, executed>>
    /\ UNCHANGED <<agent, storage>>

\* Another thread of the host calls execute(..., use_subprocess=False) while
\* this call runs its code inline: lines 370-372 redirect sys.stdout to that
\* call's StringIO.
OtherInlineEnter ==
    /\ pc \in {"inline_exec", "inline_except"}
    /\ other_pc = "idle"
    /\ other_old_stdout' = sys_stdout
    /\ sys_stdout' = "other_buffer"
    /\ other_pc' = "redirected"
    /\ UNCHANGED <<pc, arguments, gate, turn, result, child, running, output_buffer,
                   namespace, old_stdout, old_handler, sigalrm_handler,
                   alarm_pending, safe_builtins, spawned, executed>>
    /\ UNCHANGED <<agent, storage>>

\* That call ends: signal.signal (line 375) raises ValueError outside the
\* main thread, except Exception returns the traceback, and finally puts
\* back the sys.stdout the call saved and closes its StringIO.
OtherInlineReturn ==
    /\ other_pc = "redirected"
    /\ sys_stdout' = other_old_stdout
    /\ other_old_stdout' = "stdout"
    /\ old_stdout' = IF old_stdout = "other_buffer" THEN "closed" ELSE old_stdout
    /\ other_pc' = "idle"
    /\ UNCHANGED <<pc, arguments, gate, turn, result, child, running, output_buffer,
                   namespace, old_handler, sigalrm_handler, alarm_pending,
                   safe_builtins, spawned, executed>>
    /\ UNCHANGED <<agent, storage>>

\* The code is in a loop that never ends and runs one more iteration, in the
\* child or in the caller's thread.
Loop ==
    /\ behaviour.outcome \in {"loop", "loop_catch"}
    /\ process = "exec" \/ pc = "inline_exec"
    /\ iteration' = 1 - iteration
    /\ UNCHANGED <<pc, arguments, gate, turn, result, child, behaviour, memory_cap,
                   exec_code, output_buffer,
                   namespace, host, spawned, executed>>
    /\ UNCHANGED <<agent, storage>>

Next ==
    \/ Execute
    \/ Done
    \/ LlmCall
    \/ StartProcess
    \/ WorkerExec
    \/ WorkerReturn
    \/ WorkerRaise
    \/ WorkerDie
    \/ WorkerExit
    \/ JoinExited
    \/ JoinTimeout
    \/ Kill
    \/ ChildDies
    \/ ReturnKilled
    \/ ReturnOutcome
    \/ InlineNoSignal
    \/ InlineExec
    \/ InlineReturn
    \/ InlineRaise
    \/ InlineExcept
    \/ InlineRaiseBase
    \/ AlarmInExec
    \/ AlarmInExcept
    \/ OtherInlineEnter
    \/ OtherInlineReturn
    \/ Loop

Spec == Init /\ [][Next]_vars

\* The steps of the thread that called execute, the code it runs inline
\* included (the iterations of an endless loop are not progress).
CallerStep ==
    \/ LlmCall
    \/ StartProcess
    \/ JoinExited
    \/ JoinTimeout
    \/ Kill
    \/ ReturnKilled
    \/ ReturnOutcome
    \/ InlineNoSignal
    \/ InlineExec
    \/ InlineReturn
    \/ InlineRaise
    \/ InlineExcept
    \/ InlineRaiseBase

\* The steps of the child process.
ChildStep ==
    \/ WorkerExec
    \/ WorkerReturn
    \/ WorkerRaise
    \/ WorkerDie
    \/ WorkerExit
    \/ ChildDies

\* The delivery of a pending SIGALRM.
AlarmStep == AlarmInExec \/ AlarmInExcept

\* The operating system schedules the caller's thread and the child, a wait
\* with a timeout ends and a pending alarm is delivered; the caller need not
\* call again.
LiveSpec ==
    Spec /\ WF_vars(CallerStep) /\ WF_vars(ChildStep) /\ WF_vars(AlarmStep)

(***************************************************************************)
(* The agent: AnalystAgent.analyze, analyze_stream, _execute_with_retry    *)
(* and _call_llm, run by the event loop for the endpoints /query and       *)
(* /query/stream.  The interpreter's call is its returned dict here.       *)
(***************************************************************************)

\* The turns a session's history has room for.
MaxMessages == 2

\* The steps of another coroutine that are told apart.
MaxTicks == 2

\* A response that hides the failure.
AnalysisSucceeded == [status |-> "success"]

\* The AnalysisResponse of analyze's except Exception (lines 441-450).
AnalysisFailed == [status |-> "error"]

\* A coordinator that returns the first code with the second result.
KeptCode(first_code, retry_code) == first_code

\* python_code = retry_code (line 335): the code of the returned pair.
FinalCode(first_code, retry_code) == retry_code

\* AnalystAgent._call_llm: the client's call raises, or the content is
\* returned; the content is JSON with python_code, JSON without (or with an
\* empty one), or text that json.loads rejects.
_call_llm ==
    { [outcome |-> "raised", python_code |-> <<>>],
      [outcome |-> "nocode", python_code |-> <<>>],
      [outcome |-> "invalid", python_code |-> <<>>] }
    \cup { [outcome |-> "code", python_code |-> <<c>>] :
               c \in {"print(sum(x))", "df.groupby('a').first()"} }

\* A request arrives and the event loop runs the endpoint's coroutine:
\* query_analyst calls agent.analyze, query_analyst_stream iterates
\* agent.analyze_stream (chat.py lines 74, 145); both build the prompt
\* (lines 360-376, 468-485).
Analyze ==
    /\ a_pc = "idle"
    /\ loop_thread = "free"
    /\ Len(memory) < MaxMessages
    /\ \E e \in {"query", "stream"} : endpoint' = e
    /\ loop_thread' = "agent"
    /\ a_pc' = "turn1"
    /\ python_code' = <<>>
    /\ exec_result' = <<>>
    /\ llm_log' = <<>>
    /\ exec_log' = <<>>
    /\ response' = <<>>
    /\ UNCHANGED <<other_ticks, memory, interpreter, storage>>

\* analyze_stream is suspended at a yield (lines 488, 495-496, 528-532):
\* the loop's thread is free until the consumer asks for the next event.
Yield ==
    /\ endpoint = "stream"
    /\ loop_thread = "agent"
    /\ a_pc \in {"turn1", "exec1", "refine"}
    /\ loop_thread' = "free"
    /\ UNCHANGED <<a_pc, endpoint, other_ticks, python_code, exec_result,
                   llm_log, exec_log, memory, response, interpreter, storage>>

\* The loop resumes the suspended generator.
Resume ==
    /\ endpoint = "stream"
    /\ loop_thread = "free"
    /\ a_pc \in {"turn1", "exec1", "refine"}
    /\ loop_thread' = "agent"
    /\ UNCHANGED <<a_pc, endpoint, other_ticks, python_code, exec_result,
                   llm_log, exec_log, memory, response, interpreter, storage>>

\* Another coroutine of the same loop (another request, another stream's
\* consumer) makes a step: the loop's thread must be free to run it.
OtherCoroutine ==
    /\ loop_thread = "free"
    /\ other_ticks' = (other_ticks + 1) % MaxTicks
    /\ UNCHANGED <<a_pc, endpoint, loop_thread, python_code, exec_result,
                   llm_log, exec_log, memory, response, interpreter, storage>>

\* Turn 1 (lines 378-385, 489-491): the LLM is called.  The call raises, or
\* json.loads rejects the content: except Exception answers with the error.
\* With python_code the turn goes on to the execution; without, analyze
\* parses and saves the answer (lines 430-439) and analyze_stream goes on to
\* stream the only turn.
Turn1 ==
    /\ a_pc = "turn1"
    /\ loop_thread = "agent"
    /\ \E r \in _call_llm :
           /\ llm_log' = Append(llm_log, [site |-> "turn1", outcome |-> r.outcome,
                                          python_code |-> r.python_code])
           /\ python_code' = r.python_code
           /\ CASE r.outcome \in {"raised", "invalid"} ->
                       /\ response' = <<AnalysisFailed>>
                       /\ a_pc' = "done"
                       /\ loop_thread' = "free"
                       /\ UNCHANGED memory
                [] r.outcome = "code" ->
                       /\ a_pc' = "exec1"
                       /\ UNCHANGED <<response, loop_thread, memory>>
                [] r.outcome = "nocode" /\ endpoint = "query" ->
                       /\ response' = <<[status |-> "success"]>>
                       /\ memory' = memory \o <<"user", "ai">>
                       /\ a_pc' = "done"
                       /\ loop_thread' = "free"
                [] OTHER ->
                       /\ a_pc' = "refine"
                       /\ UNCHANGED <<response, loop_thread, memory>>
    /\ UNCHANGED <<endpoint, other_ticks, exec_result, exec_log, interpreter,
                   storage>>

\* _execute_with_retry calls self.interpreter.execute (line 309 with the
\* first code, line 336 with retry_code): the calling thread, which is the
\* loop's thread, waits in process.join for the child.
CallExecute ==
    /\ a_pc \in {"exec1", "exec2"}
    /\ loop_thread = "agent"
    /\ exec_log' = Append(exec_log,
                          [code |-> IF a_pc = "exec1" THEN python_code[1]
                                    ELSE llm_log[Len(llm_log)].python_code[1],
                           result |-> <<>>])
    /\ a_pc' = IF a_pc = "exec1" THEN "wait1" ELSE "wait2"
    /\ UNCHANGED <<endpoint, loop_thread, other_ticks, python_code, exec_result,
                   llm_log, memory, response, interpreter, storage>>

\* execute returns its dict (lines 309-312, 336-338): after a success of the
\* first call, and after the second call, _execute_with_retry returns.
ExecuteReturns ==
    /\ a_pc \in {"wait1", "wait2"}
    /\ loop_thread = "agent"
    /\ \E r \in {WorkerSuccess("6\n"), WorkerFailure(""), KilledResult} :
           /\ exec_result' = <<r>>
           /\ exec_log' = [exec_log EXCEPT ![Len(exec_log)].result = <<r>>]
           /\ a_pc' = IF a_pc = "wait1" /\ ~r.success THEN "retry" ELSE "refine"
    /\ UNCHANGED <<endpoint, loop_thread, other_ticks, python_code, llm_log,
                   memory, response, interpreter, storage>>

\* The auto-retry (lines 314-342): the LLM is called with the error.  The
\* call raises: nothing in _execute_with_retry catches it and the caller's
\* except Exception answers with the error.  The content is not JSON
\* (JSONDecodeError is caught) or has no python_code: the first pair is
\* returned.  Otherwise python_code is the retry code, executed next.
Retry ==
    /\ a_pc = "retry"
    /\ loop_thread = "agent"
    /\ \E r \in _call_llm :
           /\ llm_log' = Append(llm_log, [site |-> "retry", outcome |-> r.outcome,
                                          python_code |-> r.python_code])
           /\ CASE r.outcome = "raised" ->
                       /\ response' = <<AnalysisFailed>>
                       /\ a_pc' = "done"
                       /\ loop_thread' = "free"
                       /\ UNCHANGED python_code
                [] r.outcome = "code" ->
                       /\ python_code' =
                              <<FinalCode(python_code[1], r.python_code[1])>>
                       /\ a_pc' = "exec2"
                       /\ UNCHANGED <<response, loop_thread>>
                [] OTHER ->
                       /\ a_pc' = "refine"
                       /\ UNCHANGED <<python_code, response, loop_thread>>
    /\ UNCHANGED <<endpoint, other_ticks, exec_result, exec_log, memory,
                   interpreter, storage>>

\* The final turn.  analyze (lines 424-439): the LLM is called with the
\* results; the call raises and except Exception answers with the error, or
\* the content is parsed (content that is not JSON gives a response with
\* status error) and the two messages are saved.  analyze_stream (lines
\* 528-536): StreamHandler.stream_analysis turns a failure into an error
\* event and the messages are saved in every case.
Refine ==
    /\ a_pc = "refine"
    /\ loop_thread = "agent"
    /\ \E r \in _call_llm :
           /\ llm_log' = Append(llm_log, [site |-> "refine", outcome |-> r.outcome,
                                          python_code |-> r.python_code])
           /\ response' = IF r.outcome \in {"raised", "invalid"}
                          THEN <<AnalysisFailed>>
                          ELSE <<[status |-> "success"]>>
           /\ memory' = IF r.outcome = "raised" /\ endpoint = "query"
                        THEN memory
                        ELSE memory \o <<"user", "ai">>
    /\ a_pc' = "done"
    /\ loop_thread' = "free"
    /\ UNCHANGED <<endpoint, other_ticks, python_code, exec_result, exec_log,
                   interpreter, storage>>

\* The client has its response; the history stays.
AnalyzeReturn ==
    /\ a_pc = "done"
    /\ a_pc' = "idle"
    /\ endpoint' = "query"
    /\ python_code' = <<>>
    /\ exec_result' = <<>>
    /\ llm_log' = <<>>
    /\ exec_log' = <<>>
    /\ response' = <<>>
    /\ UNCHANGED <<loop_thread, other_ticks, memory, interpreter, storage>>

AgentNext ==
    \/ Analyze
    \/ Yield
    \/ Resume
    \/ OtherCoroutine
    \/ Turn1
    \/ CallExecute
    \/ ExecuteReturns
    \/ Retry
    \/ Refine
    \/ AnalyzeReturn

AgentSpec == Init /\ [][AgentNext]_vars

(***************************************************************************)
(* The table cache: DataFrameCache and the endpoints that use it           *)
(* (upload_file, delete_file, clear_storage, query_analyst).               *)
(***************************************************************************)

\* ExcelParser.parse_file(...)["data"]: the records of a CSV text whose first
\* line names the column (the detection of types is not modelled); an empty
\* file has no records.
parse_file(content) ==
    IF content = "" THEN <<>>
    ELSE LET lines == Split(content, "\n")
         IN  [k \in 1..(Len(lines) - 1) |-> << <<lines[1], lines[k + 1]>> >>]

\* POST /upload: FileManager.save_file writes the content under the name,
\* over a file of that name; the background job indexes the file.
upload_file ==
    /\ \E f \in FileNames, content \in {"a\n1", "a\n2\n3", ""} :
           storage_dir' = [storage_dir EXCEPT ![f] = <<content>>]
    /\ returned' = <<>>
    /\ UNCHANGED <<_cache, interpreter, agent>>

\* DELETE /files/{filename}: 404 when the file is not stored; otherwise the
\* file is removed and DataFrameCache().invalidate(filename) called.
delete_file ==
    /\ \E f \in FileNames :
           /\ storage_dir[f] # <<>>
           /\ storage_dir' = [storage_dir EXCEPT ![f] = <<>>]
           /\ _cache' = [_cache EXCEPT ![f] = <<>>]
    /\ returned' = <<>>
    /\ UNCHANGED <<interpreter, agent>>

\* DELETE /files: FileManager.cleanup and DataFrameCache().clear().
clear_storage ==
    /\ storage_dir' = [f \in FileNames |-> <<>>]
    /\ _cache' = [f \in FileNames |-> <<>>]
    /\ returned' = <<>>
    /\ UNCHANGED <<interpreter, agent>>

\* A query names a stored file (get_file_path raises for another) and
\* DataFrameCache.get_or_parse returns the cached table, or on a miss
\* parses the file, caches the table and returns it.
get_or_parse ==
    /\ \E f \in FileNames :
           /\ storage_dir[f] # <<>>
           /\ IF _cache[f] # <<>>
              THEN /\ returned' = <<[filename |-> f, df |-> _cache[f][1],
                                     parsed |-> FALSE]>>
                   /\ UNCHANGED _cache
              ELSE LET table == DataFrame(parse_file(storage_dir[f][1]))
                   IN  /\ returned' = <<[filename |-> f, df |-> table,
                                         parsed |-> TRUE]>>
                       /\ _cache' = [_cache EXCEPT ![f] = <<table>>]
    /\ UNCHANGED <<storage_dir, interpreter, agent>>

CacheNext ==
    \/ upload_file
    \/ delete_file
    \/ clear_storage
    \/ get_or_parse

CacheSpec == Init /\ [][CacheNext]_vars

(***************************************************************************)
(* Properties.                                                             *)
(***************************************************************************)

\* C1: fail-closed gate.  In a call whose rewritten code the validator
\* reported a violation for, in either mode, execute has returned
\* success = false with the violation text as error and an empty output, no
\* child process was spawned and the code was not executed.
C1_FailClosedGate ==
    (pc # "idle" /\ security_error # None) =>
        /\ pc = "returned"
        /\ result = <<[success |-> FALSE, output |-> "", error |-> security_error]>>
        /\ spawned = 0
        /\ process = "none"
        /\ ~executed

\* A rejected call that asked for the subprocess mode has returned.
C1_Witness == pc = "returned" /\ security_error # None /\ use_subprocess

\* C2: a call whose code is one import statement that names a module whose
\* root is in BLOCKED_MODULES (import m, import m.sub, import m as a,
\* import a, m, from m import x, from m.sub import x, any whitespace) is
\* rejected with a policy violation and its code is not executed.
C2_BlockedImportRejected ==
    LET p == AstParse(code)
        stmt == p.tree.kids[1]
        blocked ==
            \/ /\ stmt.type = "Import"
               /\ \E k \in 1..Len(stmt.kids) :
                      ModuleRoot(stmt.kids[k].name) \in BLOCKED_MODULES
            \/ /\ stmt.type = "ImportFrom"
               /\ ModuleRoot(stmt.name) \in BLOCKED_MODULES
    IN  (pc # "idle" /\ p.ok /\ Len(p.tree.kids) = 1 /\ blocked) =>
            /\ security_error # None
            /\ ~executed
            /\ pc = "returned" => ~result[1].success

\* C3: a call whose code parses and has, anywhere in its syntax tree, an
\* attribute whose name starts and ends with a double underscore is rejected
\* and its code is never executed.
C3_DunderRejected ==
    LET p == AstParse(code)
    IN  (/\ pc # "idle"
         /\ p.ok
         /\ \E n \in Nodes(p.tree) : n.type = "Attribute" /\ IsDunder(n.name)) =>
            /\ security_error # None
            /\ ~executed
            /\ pc = "returned" => ~result[1].success

\* C4: code that has, at any depth of its syntax tree, a call by name of a
\* builtin in BLOCKED_BUILTINS is rejected by the validator and never
\* executed.  The code is the text the validator is given, which parses to
\* ast; the textual scan or the tree walk rejects it.
C4_BlockedBuiltinCallRejected ==
    (/\ pc # "idle"
     /\ ast.ok
     /\ \E n \in Nodes(ast.tree) :
            /\ n.type = "Call"
            /\ n.kids[1].type = "Name"
            /\ n.kids[1].name \in BLOCKED_BUILTINS) =>
        /\ security_error # None
        /\ ~executed
        /\ pc = "returned"
        /\ ~result[1].success

\* A call of a blocked builtin that the textual scan misses is rejected by
\* the tree walk.
C4_Witness ==
    /\ pc = "returned"
    /\ \E n \in Nodes(ast.tree) :
           /\ n.type = "Call"
           /\ n.kids[1].type = "Name"
           /\ n.kids[1].name \in BLOCKED_BUILTINS
    /\ security_error # None
    /\ StartsWithAt(security_error[1], 1, "SECURITY VIOLATION:")

\* C5: no name of BLOCKED_BUILTINS is in the allow-list and, once a run of
\* approved code has begun (in either mode), the names it was given are:
\* globals exactly pl, datetime, math, re, collections, builtins exactly the
\* allow-list SAFE_BUILTINS (so without __import__), locals exactly the
\* injected tables (df, each table name, dfs).
C5_NamespaceIsAllowList ==
    /\ SAFE_BUILTINS \cap BLOCKED_BUILTINS = {}
    /\ executed =>
           /\ namespace.globals = {"pl", "datetime", "math", "re", "collections"}
           /\ namespace.builtins = SAFE_BUILTINS
           /\ "__import__" \notin namespace.builtins
           /\ namespace.locals =
                  (IF df # <<>> THEN {"df"} ELSE {}) \cup DOMAIN dfs
                      \cup (IF DOMAIN dfs # {} THEN {"dfs"} ELSE {})

\* C6: execute never raises to its caller.
C6_NeverRaises == pc # "raised"

\* C7: in every result execute returns, on any path, error is non-null if
\* and only if success is false.
C7_ErrorIffFailure ==
    pc = "returned" =>
        /\ Len(result) = 1
        /\ result[1].error # None <=> ~result[1].success

\* A call has returned a success.
C7_Witness == pc = "returned" /\ result[1].success /\ result[1].error = None

\* C8: a call whose approved code loops forever (a loop that catches every
\* Exception raised in it included) returns success = false with an error
\* that tells the timeout, in either mode.
C8_LoopingCallTimesOut ==
    (behaviour.outcome \in {"loop", "loop_catch"})
        ~> (/\ pc = "returned"
            /\ ~result[1].success
            /\ StartsWithAt(result[1].error[1], 1, TimeoutText))

\* C9: when execute has returned, the child process it spawned is no longer
\* alive; in particular when it has returned the timeout result.
C9_NoChildOutlivesCall ==
    pc = "returned" => process \in {"none", "exited"}

\* C10: in the subprocess mode the child is killed, and the timeout message
\* returned, only when the child had not exited when the wait ended; the
\* no-result message is returned only when the child has exited and the
\* queue is empty; the two messages differ; and success = true is returned
\* only as the success outcome at the head of the queue.
C10_OutcomeMessages ==
    [][/\ (pc = "joined" /\ pc' = "join2") => process \in {"started", "exec", "put"}
       /\ (pc \in {"joined", "join2"} /\ pc' = "returned") =>
              /\ result'[1].error = KilledResult.error => pc = "join2"
              /\ result'[1].error = NoResult.error =>
                     pc = "joined" /\ process = "exited" /\ result_queue = <<>>
              /\ KilledResult.error # NoResult.error
              /\ result'[1].success =>
                     /\ pc = "joined"
                     /\ result_queue # <<>>
                     /\ Head(result_queue).success
                     /\ result'[1] = Head(result_queue)]_vars

\* The child died without an outcome and the call returned the no-result
\* message.
C10_Witness ==
    pc = "returned" /\ result = <<NoResult>> /\ process = "exited"

C12_OutputNeverExceedsCap ==
    pc = "returned" =>
        Len(result[1].output) <=
            MAX_OUTPUT_BYTES
                + (IF use_subprocess
                   THEN Len("\n... [OUTPUT TRUNCATED at "
                                \o ToString(MAX_OUTPUT_BYTES) \o " bytes]")
                   ELSE Len("\n... [OUTPUT TRUNCATED]"))

\* C13: when the executed code raised an exception, execute returns
\* success = false, the traceback as error and as output all the code
\* printed before the exception.  Stated for the calls that did not end by
\* the timeout: in the child the code's exception ended _worker's exec (its
\* outcome was put, or the child exited by itself with none), inline it
\* ended exec in the caller's thread.
C13_RaisedRunKeepsOutput ==
    LET raised ==
            /\ pc \in {"returned", "raised"}
            /\ executed
            /\ behaviour.outcome \in {"raise", "raise_base"}
            /\ IF use_subprocess
               THEN result # <<KilledResult>>
               ELSE pc = "raised" \/ result[1].error # Some(TimeoutText)
    IN  raised =>
            /\ pc = "returned"
            /\ ~result[1].success
            /\ result[1].error = Some(TracebackText)
            /\ result[1].output = output_buffer

\* C14: no step of a call, in either mode and whatever the code does
\* (in-place changes of a table or of the dfs mapping included), changes the
\* caller's tables or the caller's name-to-table mapping: they are after
\* execute returned what they were when it was called.
C14_CallerTablesUnchanged ==
    [][(pc # "idle" /\ pc' # "idle") => (df' = df /\ dfs' = dfs)]_vars

\* C15: when the run begins, the code sees under every name n of the
\* supplied mapping the table supplied as n (n = "df" and n = "dfs"
\* included), and the unnamed table under df.
C15_CodeSeesSuppliedTables ==
    [][(~executed /\ executed') =>
          /\ \A n \in DOMAIN dfs : namespace'.values[n] = dfs[n]
          /\ (df # <<>> /\ "df" \notin DOMAIN dfs) =>
                 namespace'.values["df"] = df[1]]_vars

\* C16: concurrent calls share no mutable state; in particular, once the
\* calls of both threads have returned, the host's sys.stdout is the
\* original one.
C16_StdoutRestoredAfterCalls ==
    (pc \in {"idle", "returned", "raised"} /\ other_pc = "idle") =>
        sys_stdout = "stdout"

\* C17: whenever user code runs or has run in the child, the child's
\* address-space cap was set before the code started.
C17_ChildRunsCapped ==
    (use_subprocess /\ executed) => memory_cap = "set"

\* C18: in one turn the coordinator calls execute at most twice and the LLM
\* at most once; the second call of execute follows the corrective answer
\* and nothing else does; and once the second call has returned, with
\* success or failure, the coordinator makes no further call and keeps that
\* result.
C18_AtMostOneRetry ==
    [][/\ attempts' <= 2
       /\ llm_calls' <= 1
       /\ attempts' = 2 => llm_calls' = 1
       /\ (pc = "retry" /\ pc' # "retry") => (attempts = 1 /\ attempts' = 2)
       /\ (attempts = 2 /\ pc = "returned") =>
              \/ pc' = "idle"
              \/ pc' = "returned" /\ result' = result /\ UNCHANGED turn]_vars

\* The second call of a turn has returned a failure.
C18_Witness ==
    attempts = 2 /\ llm_calls = 1 /\ pc = "returned" /\ ~result[1].success

\* C19: the corrective LLM call is made only after a first attempt that
\* ended with a runtime exception of the executed code (its error is the
\* traceback); a policy rejection, a timeout or a missing result ends the
\* turn.
C19_RetryOnlyAfterException ==
    [][llm_calls' > llm_calls =>
           (executed /\ result[1].error = Some(TracebackText))]_vars

\* C20: a call goes on to execution, on the first and on the second call
\* of a turn, only with the rewriter's output for the submitted code, which
\* the validator was given and approved; and the text given to exec is that
\* same text.
C20_ExecutedTextIsValidated ==
    [][/\ (attempts' = attempts + 1 /\ pc' \in {"subprocess", "inline"}) =>
              /\ rewritten' = _preprocess_code(code')
              /\ None \in _check_security(rewritten')
              /\ security_error' = None
       /\ (~executed /\ executed') =>
              /\ exec_code' = <<rewritten>>
              /\ security_error = None
              /\ UNCHANGED <<code, rewritten, security_error>>]_vars

\* The second call of a turn executes a text that the rewriter changed.
C20_Witness ==
    attempts = 2 /\ executed /\ exec_code # <<>> /\ exec_code # <<code>>

\* C21: the Source Rewriter is idempotent: the text execute obtained from
\* _preprocess_code is left unchanged by a second application.
C21_RewriterIdempotent ==
    [][attempts' = attempts + 1 =>
           _preprocess_code(rewritten') = rewritten']_vars

\* C22: benign code passes.  For a text that parses and in whose tree the
\* walk finds no blocked import, no call of a blocked builtin by name and no
\* dunder attribute, the validator reports no violation, so that execute
\* goes on to run it.
C22_BenignCodePasses ==
    (/\ pc \notin {"idle", "retry"}
     /\ ast.ok
     /\ visit(ast.tree) = <<>>) =>
        /\ security_error = None
        /\ result # <<Rejection(security_error)>>

\* C23 as stated: for a text that does not parse the error execute returns
\* is the syntax-error report, whatever the text holds.
C23_UnparsableIsSyntaxError ==
    (pc \notin {"idle", "retry"} /\ ~ast.ok) =>
        /\ pc = "returned"
        /\ ~result[1].success
        /\ StartsWithAt(result[1].error[1], 1, "SyntaxError: ")
        /\ ~executed

\* C23: a text that does not parse is never executed and execute returns
\* success = false with an empty output; the error is the syntax-error
\* report when the textual scan finds no blocked import and no blocked
\* builtin in the text, and the scan's rejection otherwise.
C23_UnparsableRejected ==
    (pc \notin {"idle", "retry"} /\ ~ast.ok) =>
        /\ pc = "returned"
        /\ result = <<Rejection(security_error)>>
        /\ ~executed
        /\ spawned = 0
        /\ IF ScanModules(rewritten) = {} /\ ScanBuiltins(rewritten) = {}
           THEN security_error = Some(SyntaxErrorText)
           ELSE StartsWithAt(security_error[1], 1, "SECURITY: ")

\* A text that does not parse and that the scan lets through was rejected
\* with the syntax-error report.
C23_Witness ==
    /\ pc = "returned"
    /\ ~ast.ok
    /\ result = <<Rejection(Some(SyntaxErrorText))>>

\* C26: when execute returns in subprocess mode and the child's outcome is
\* on the result channel, execute returns that outcome.
C26_PutOutcomeIsReturned ==
    [][(/\ use_subprocess
        /\ pc # "returned"
        /\ pc' = "returned"
        /\ result_queue # <<>>) => result' = <<Head(result_queue)>>]_vars

\* C27: in subprocess mode the tables the child rebuilt from the records
\* have the columns and the rows of the caller's tables.
C27_TablesSurviveTransfer ==
    (use_subprocess /\ executed) =>
        /\ (df # <<>> /\ "df" \notin DOMAIN dfs) => namespace.values["df"] = df[1]
        /\ DOMAIN dfs # {} => namespace.values["dfs"] = dfs

\* C29: when an inline call ends (execute returns or raises), sys.stdout and
\* the SIGALRM handler are the ones the call found and no alarm is pending.
C29_InlineRestoresHost ==
    [][(/\ pc \in {"inline", "inline_exec", "inline_except"}
        /\ pc' \in {"returned", "raised"}) =>
           /\ sys_stdout' = (IF pc = "inline" THEN sys_stdout ELSE old_stdout)
           /\ sigalrm_handler' =
                  (IF pc = "inline" THEN sigalrm_handler ELSE old_handler)
           /\ ~alarm_pending']_vars

\* C24: when a call of the LLM raises during a turn of analyze (the first
\* call, the corrective call or the refinement call), that step ends the
\* turn: analyze returns a response whose status is "error", the call is not
\* repeated, nothing more is executed, and no message is saved in a turn in
\* which a call raised.
C24_LlmFailureEndsTurn ==
    [][/\ (/\ endpoint' = "query"
           /\ Len(llm_log') = Len(llm_log) + 1
           /\ llm_log'[Len(llm_log')].outcome = "raised") =>
              /\ a_pc' = "done"
              /\ response' = <<[status |-> "error"]>>
              /\ exec_log' = exec_log
              /\ memory' = memory
       /\ (a_pc = "done" /\ a_pc' # "idle") =>
              UNCHANGED <<llm_log, exec_log, memory, response>>
       /\ (endpoint' = "query" /\ memory' # memory) =>
              \A k \in 1..Len(llm_log') : llm_log'[k].outcome # "raised"]_vars

\* The corrective call of a turn of analyze raised, after one execution.
C24_Witness ==
    /\ endpoint = "query"
    /\ a_pc = "done"
    /\ Len(llm_log) = 2
    /\ llm_log[2] = [site |-> "retry", outcome |-> "raised", python_code |-> <<>>]
    /\ Len(exec_log) = 1
    /\ response = <<[status |-> "error"]>>

\* C25: the table get_or_parse returns to a query is the parse of the file
\* stored under the name, and the parser is called only when the cache has
\* no entry for the name.
C25_CacheReturnsStoredFile ==
    returned # <<>> =>
        LET r == returned[1]
        IN  /\ storage_dir[r.filename] # <<>>
            /\ r.df = DataFrame(parse_file(storage_dir[r.filename][1]))

\* C28: while an execution waits for its child, the event loop can run
\* another coroutine, for /query and for analyze_stream.
C28_LoopFreeDuringWait ==
    a_pc \in {"wait1", "wait2"} => ENABLED OtherCoroutine

\* C30: the pair _execute_with_retry returns is consistent: exec_result is
\* the outcome of the last execution and that execution ran python_code;
\* when the corrective reply is not JSON or has no python_code there was one
\* execution, and the pair is the first code with its failing result.
C30_PairIsConsistent ==
    (a_pc = "refine" /\ exec_log # <<>>) =>
        /\ exec_log[Len(exec_log)] =
               [code |-> python_code[1], result |-> exec_result]
        /\ (/\ Len(llm_log) = 2
            /\ llm_log[2].outcome \in {"invalid", "nocode"}) =>
               /\ Len(exec_log) = 1
               /\ python_code = llm_log[1].python_code
               /\ ~exec_result[1].success

\* The retry ran a code other than the first and the pair was returned.
C30_Witness ==
    /\ a_pc = "refine"
    /\ Len(exec_log) = 2
    /\ exec_log[1].code # exec_log[2].code
    /\ exec_log[2].result # <<>>

====
